---- MODULE Spec2Model ----
(***************************************************************************)
(* Model of the meeting-minutes application.                               *)
(*                                                                         *)
(* src/src/conversation_maker.py: speaker assignment by maximal overlap,   *)
(* merging of consecutive utterances, the speaker-name map and its file    *)
(* over several runs, loading of the transcript, and the rendering of the  *)
(* conversation.  src/src/whisperx_convo.py: the conversation lines of the *)
(* WhisperX path.  src/src/app_streamlit.py: the session state and the     *)
(* handlers of its buttons.  src/src/text_to_meetmins.py: the cutting of   *)
(* the transcript into chunks and the writing of the minutes.              *)
(*                                                                         *)
(* Times are integers (ticks of a fixed grid of seconds; half seconds      *)
(* where round() is applied); the code only compares, subtracts, rounds    *)
(* and takes min/max of times.  A text is a sequence of characters, so     *)
(* that strip(), concatenation and formatting are computed.                *)
(***************************************************************************)
EXTENDS Integers, Sequences, FiniteSets, TLC

VARIABLES
    whisper_segs,   \* assign_speakers: the transcribed segments (argument)
    diar_turns,     \* assign_speakers: the diarization turns (argument)
    assigned,       \* assign_speakers: the list built so far / returned
    j,              \* assign_speakers: the cursor into diar_turns
    merge_in,       \* merge_consecutive: the argument `assigned`
    max_gap,        \* merge_consecutive: the argument `max_gap`
    merged,         \* merge_consecutive: the list built so far / returned
    mi,             \* merge_consecutive: number of input segments consumed
    remerged,       \* result of merging the merged list once more
    map_file,       \* the speaker-map file: whether it exists, and its content
    map_in,         \* apply_speaker_map: the argument `merged`
    renamed,        \* apply_speaker_map(map_in)
    renamed2,       \* apply_speaker_map(renamed)
    whisper_json,   \* the transcript JSON file: whether it exists, and its content
    loaded,         \* load_whisper_segments: the value returned
    write_in,       \* write_conversation: the argument `merged`
    include_timestamps, \* write_conversation: the argument of that name
    out_file,       \* write_conversation: the lines written to out_path
    wx_lines,       \* transcribe_to_conversation: the lines of conversation.md
    heap,           \* the dicts of a call, by identity
    heap0,          \* the dicts as they were when the call was made
    arg_refs,       \* the list passed to the call: identities of its dicts
    res_refs,       \* the list the call builds / returns
    transcript,     \* st.session_state.transcript
    merged_segments,    \* st.session_state.merged_segments
    conversation_path,  \* st.session_state.conversation_path
    minutes_src,    \* the file the last Generate Minutes summarised
    next_run,       \* number of transcripts the session has produced
    full_text,      \* _chunk_text: the argument `text`
    max_chars,      \* _chunk_text: the argument `max_chars`
    parts,          \* _chunk_text: the list built so far / returned
    ci,             \* _chunk_text: the index i
    txt_exists,     \* make_minutes_from_text: whether the transcript file exists
    partials,       \* make_minutes_from_text: what _extract_json gave per chunk
    combined,       \* make_minutes_from_text: the local `merged`
    csv_path,       \* make_minutes_from_text: the local `csv_path`
    out_files,      \* the files written: minutes .md, .txt, actions CSV and its rows
    minutes_ret,    \* make_minutes_from_text: the value returned, or what it raised
    pc              \* position of the run

vars == <<whisper_segs, diar_turns, assigned, j, merge_in, max_gap, merged, mi,
          remerged, map_file, map_in, renamed, renamed2,
          whisper_json, loaded, write_in, include_timestamps, out_file, wx_lines,
          heap, heap0, arg_refs, res_refs,
          transcript, merged_segments, conversation_path, minutes_src, next_run,
          full_text, max_chars, parts, ci,
          txt_exists, partials, combined, csv_path, out_files, minutes_ret,
          pc>>

assignVars == <<whisper_segs, diar_turns, assigned, j>>
mergeVars  == <<merge_in, max_gap, merged, mi, remerged>>
mapVars    == <<map_file, map_in, renamed, renamed2>>
ioVars     == <<whisper_json, loaded, write_in, include_timestamps, out_file, wx_lines>>
heapVars   == <<heap, heap0, arg_refs, res_refs>>
sessVars   == <<transcript, merged_segments, conversation_path, minutes_src, next_run>>
chunkVars  == <<full_text, max_chars, parts, ci>>
minVars    == <<txt_exists, partials, combined, csv_path, out_files, minutes_ret>>
restVars   == <<ioVars, heapVars, sessVars, chunkVars, minVars>>

----------------------------------------------------------------------------
(* Bounds of the model *)

MaxTime  == 2     \* times range over 0..MaxTime
MaxTurns == 2     \* longest list of diarization turns
MaxSegs  == 2     \* longest list of transcribed segments
MaxAssigned == 3  \* longest list given to merge_consecutive
MaxGap   == 1     \* max_gap ranges over 0..MaxGap
MaxMerged == 2    \* longest list given to apply_speaker_map
MaxCallSegs == 2  \* longest list of dicts passed by reference
MaxTranscripts == 3   \* transcripts one Streamlit session produces

----------------------------------------------------------------------------
(* Values *)

Labels == {"A", "B"}             \* speaker labels produced by the diarization
None   == "<None>"               \* Python's None
NoFile == [exists |-> FALSE, mapping |-> <<>>]   \* no file at map_path

Times == 0 .. MaxTime

SeqsUpTo(S, n) == UNION {[1 .. k -> S] : k \in 0 .. n}

Min(a, b) == IF a <= b THEN a ELSE b
Max(a, b) == IF a >= b THEN a ELSE b

(* str.strip(): leading and trailing blanks removed *)
RECURSIVE LStrip(_)
LStrip(t) == IF t # <<>> /\ Head(t) = " " THEN LStrip(Tail(t)) ELSE t

RECURSIVE RStrip(_)
RStrip(t) ==
    IF t # <<>> /\ t[Len(t)] = " " THEN RStrip(SubSeq(t, 1, Len(t) - 1)) ELSE t

Strip(t) == RStrip(LStrip(t))

(* variant: x itself, None included *)
OrElseKeep(x, d) == x

(* x or d: d when x is None or the empty string *)
OrElse(x, d) == IF x = None \/ x = "" THEN d ELSE x

(* the parts of the state a specification does not use *)
AssignIdle ==
    whisper_segs = <<>> /\ diar_turns = <<>> /\ assigned = <<>> /\ j = 0

MergeIdle ==
    /\ merge_in = <<>> /\ max_gap = 0 /\ merged = <<>> /\ mi = 0
    /\ remerged = <<>>

MapIdle ==
    map_file = NoFile /\ map_in = <<>> /\ renamed = <<>> /\ renamed2 = <<>>

IoIdle ==
    /\ whisper_json = [exists |-> FALSE, data |-> <<>>] /\ loaded = <<>>
    /\ write_in = <<>> /\ include_timestamps = TRUE
    /\ out_file = <<>> /\ wx_lines = <<>>

HeapIdle ==
    heap = <<>> /\ heap0 = <<>> /\ arg_refs = <<>> /\ res_refs = <<>>

(* st.session_state before anything is stored in it: None, here the run 0 *)
NoTranscript == [id |-> 0, json |-> FALSE]
NoSegments   == [from |-> 0]
NoPath       == [from |-> 0]
NoMinutes    == [from |-> 0, held |-> 0]

SessIdle ==
    /\ transcript = NoTranscript /\ merged_segments = NoSegments
    /\ conversation_path = NoPath /\ minutes_src = NoMinutes /\ next_run = 0

(* a name that is not bound / a value that is not there yet *)
Unbound == "<unbound>"

NoMerged == [actions |-> <<>>]
NoFiles  == [md |-> FALSE, txt |-> FALSE, csv |-> FALSE, rows |-> <<>>]
NoReturn == [raised |-> "", minutes_md |-> Unbound, minutes_txt |-> Unbound,
             actions_csv |-> Unbound, dir |-> Unbound]

ChunkIdle == full_text = <<>> /\ max_chars = 1 /\ parts = <<>> /\ ci = 0

MinutesIdle ==
    /\ txt_exists = FALSE /\ partials = <<>> /\ combined = NoMerged
    /\ csv_path = Unbound /\ out_files = NoFiles /\ minutes_ret = NoReturn

RestIdle == IoIdle /\ HeapIdle /\ SessIdle /\ ChunkIdle /\ MinutesIdle

----------------------------------------------------------------------------
(* diarize: the turns are sorted by start; list.sort is stable *)

RECURSIVE InsertByStart(_, _)
InsertByStart(sorted, t) ==
    IF sorted = <<>> THEN <<t>>
    ELSE IF sorted[Len(sorted)].start <= t.start THEN Append(sorted, t)
    ELSE Append(InsertByStart(SubSeq(sorted, 1, Len(sorted) - 1), t),
                sorted[Len(sorted)])

(* variant: the sort left out *)
Unsorted(ts) == ts

RECURSIVE SortByStart(_)
SortByStart(ts) ==
    IF ts = <<>> THEN <<>>
    ELSE InsertByStart(SortByStart(SubSeq(ts, 1, Len(ts) - 1)), ts[Len(ts)])

----------------------------------------------------------------------------
(* assign_speakers *)

overlap(a_start, a_end, b_start, b_end) ==
    Max(0, Min(a_end, b_end) - Max(a_start, b_start))

(* while j < n and diar_turns[j]["end"] < ws: j += 1   (j counts from 0) *)
RECURSIVE SkipTurnsFrom(_, _, _)
SkipTurnsFrom(jj, turns, ws) ==
    IF jj < Len(turns) /\ turns[jj + 1].end < ws
    THEN SkipTurnsFrom(jj + 1, turns, ws)
    ELSE jj

(* variant: the cursor skips on the start of a turn instead of its end *)
RECURSIVE SkipByStart(_, _, _)
SkipByStart(jj, turns, ws) ==
    IF jj < Len(turns) /\ turns[jj + 1].start < ws
    THEN SkipByStart(jj + 1, turns, ws)
    ELSE jj

(* the cursor after the skip for a segment starting at ws *)
SkipTurns(jj, turns, ws) == SkipTurnsFrom(jj, turns, ws)

(* variant: >= instead of > *)
BetterGE(ov, best_ov) == ov >= best_ov

(* if ov > best_ov: best_ov = ov; best_lbl = speaker *)
Better(ov, best_ov) == ov > best_ov

(* while k < n and diar_turns[k]["start"] < we: ...; k += 1 *)
RECURSIVE ScanTurns(_, _, _, _, _)
ScanTurns(k, turns, ws, we, best) ==
    IF k < Len(turns) /\ turns[k + 1].start < we
    THEN LET ov == overlap(ws, we, turns[k + 1].start, turns[k + 1].end)
         IN  ScanTurns(k + 1, turns, ws, we,
                       IF Better(ov, best.ov)
                       THEN [lbl |-> turns[k + 1].speaker, ov |-> ov]
                       ELSE best)
    ELSE best

(* variant: "end": ws instead of "end": we *)
AssignedDictStartTwice(seg, jj, turns) ==
    LET best == ScanTurns(jj, turns, seg.start, seg.end, [lbl |-> None, ov |-> 0])
    IN  [start |-> seg.start, end |-> seg.start,
         speaker |-> OrElse(best.lbl, "UNKNOWN"),
         text |-> Strip(seg.text)]

(* the dict appended for one segment, the cursor being at jj after the skip *)
AssignedDict(seg, jj, turns) ==
    LET best == ScanTurns(jj, turns, seg.start, seg.end, [lbl |-> None, ov |-> 0])
    IN  [start |-> seg.start, end |-> seg.end,
         speaker |-> OrElse(best.lbl, "UNKNOWN"),
         text |-> Strip(seg.text)]

(* the whole function, from cursor jj on *)
RECURSIVE AssignFrom(_, _, _)
AssignFrom(segs, jj, turns) ==
    IF segs = <<>> THEN <<>>
    ELSE LET j1 == SkipTurns(jj, turns, Head(segs).start)
         IN  <<AssignedDict(Head(segs), j1, turns)>>
                 \o AssignFrom(Tail(segs), j1, turns)

assign_speakers(segs, turns) == AssignFrom(segs, 0, turns)

----------------------------------------------------------------------------
(* Inputs of assign_speakers *)

TurnDicts == {t \in [start : Times, end : Times, speaker : Labels] :
                 t.start <= t.end}

SegTexts == {<<" ", "a">>}

SegDicts == {s \in [start : Times, end : Times, text : SegTexts] :
                s.start <= s.end}

(* seg may follow the list s: it starts no earlier than the last element *)
InTimeOrder(s, seg) == IF s = <<>> THEN TRUE ELSE s[Len(s)].start <= seg.start

NonDecreasingStart(s) ==
    \A a \in 1 .. Len(s) - 1 : s[a].start <= s[a + 1].start

(* main: assign_speakers(whisper_segs, diarize(...)).  The turns are those   *)
(* diarize returns, sorted by start.  whisper_segs holds the transcription   *)
(* as far as the loop has read it: each iteration draws the next segment,    *)
(* which starts no earlier than the one before.                              *)
InitAssign ==
    /\ whisper_segs = <<>>
    /\ diar_turns \in {SortByStart(t) : t \in SeqsUpTo(TurnDicts, MaxTurns)}
    /\ assigned = <<>>
    /\ j = 0
    /\ merge_in = <<>> /\ max_gap = 0 /\ merged = <<>> /\ mi = 0
    /\ remerged = <<>>
    /\ map_file = NoFile /\ map_in = <<>> /\ renamed = <<>> /\ renamed2 = <<>>
    /\ RestIdle
    /\ pc = "assign"

(* one iteration of `for seg in whisper_segs` *)
AssignLoop ==
    /\ pc = "assign"
    /\ Len(assigned) < MaxSegs
    /\ \E seg \in SegDicts :
          /\ InTimeOrder(whisper_segs, seg)
          /\ whisper_segs' = Append(whisper_segs, seg)
          /\ LET j1 == SkipTurns(j, diar_turns, seg.start)
             IN  /\ j' = j1
                 /\ assigned' = Append(assigned, AssignedDict(seg, j1, diar_turns))
    /\ UNCHANGED <<restVars, diar_turns, mergeVars, mapVars, pc>>

(* return assigned *)
AssignReturn ==
    /\ pc = "assign"
    /\ pc' = "assigned"
    /\ UNCHANGED <<restVars, assignVars, mergeVars, mapVars>>

NextAssign == AssignLoop \/ AssignReturn

SpecAssign == InitAssign /\ [][NextAssign]_vars

----------------------------------------------------------------------------
(* merge_consecutive *)

(* variants: < instead of <=; seg["end"] instead of seg["start"]; the gap    *)
(* taken without its sign                                                   *)
MergeCondAbsGap(last, seg, g) ==
    /\ seg.speaker = last.speaker
    /\ Max(seg.start - last.end, last.end - seg.start) <= g

MergeCondStrict(last, seg, g) ==
    seg.speaker = last.speaker /\ seg.start - last.end < g

MergeCondByEnd(last, seg, g) ==
    seg.speaker = last.speaker /\ seg.end - last.end <= g

(* seg["speaker"] == last["speaker"] and seg["start"] - last["end"] <= max_gap *)
MergeCond(last, seg, g) ==
    seg.speaker = last.speaker /\ seg.start - last.end <= g

(* variants: the later of the two ends kept; the texts joined the other way round *)
ExtendKeepLongest(last, seg) ==
    [last EXCEPT !.end = Max(last.end, seg.end),
                 !.text = Strip(last.text \o <<" ">> \o seg.text)]

ExtendPrepend(last, seg) ==
    [last EXCEPT !.end = seg.end,
                 !.text = Strip(seg.text \o <<" ">> \o last.text)]

(* last["end"] = seg["end"]; last["text"] = (last["text"] + " " + seg["text"]).strip() *)
Extend(last, seg) ==
    [last EXCEPT !.end = seg.end,
                 !.text = Strip(last.text \o <<" ">> \o seg.text)]

(* the body of `for seg in assigned[1:]` *)
MergeIter(m, seg, g) ==
    LET last == m[Len(m)]
    IN  IF MergeCond(last, seg, g)
        THEN [m EXCEPT ![Len(m)] = Extend(last, seg)]
        ELSE Append(m, seg)

RECURSIVE MergeFrom(_, _, _)
MergeFrom(m, rest, g) ==
    IF rest = <<>> THEN m ELSE MergeFrom(MergeIter(m, Head(rest), g), Tail(rest), g)

merge_consecutive(a, g) ==
    IF a = <<>> THEN <<>> ELSE MergeFrom(<<Head(a)>>, Tail(a), g)

(* Inputs of merge_consecutive: dicts as assign_speakers builds them, in the  *)
(* order of the transcription.  The text of the a-th segment is stripped; it *)
(* is empty or a word of its own.  merge_in holds the argument as far as the *)
(* loop has read it: each iteration draws the next element.                  *)
Words == <<"a", "b", "c", "d", "e", "f">>

AssignedDicts(a) ==
    {s \in [start : Times, end : Times, speaker : Labels,
            text : {<<>>, <<Words[a]>>}] : s.start <= s.end}

InitMerge ==
    /\ merge_in = <<>>
    /\ max_gap \in 0 .. MaxGap
    /\ merged = <<>>
    /\ mi = 0
    /\ remerged = <<>>
    /\ whisper_segs = <<>> /\ diar_turns = <<>> /\ assigned = <<>> /\ j = 0
    /\ map_file = NoFile /\ map_in = <<>> /\ renamed = <<>> /\ renamed2 = <<>>
    /\ RestIdle
    /\ pc = "merge"

(* if not assigned: return [] *)
MergeEmpty ==
    /\ pc = "merge"
    /\ pc' = "merged"
    /\ UNCHANGED <<restVars, assignVars, mergeVars, mapVars>>

(* merged = [assigned[0].copy()] *)
MergeFirst ==
    /\ pc = "merge"
    /\ \E seg \in AssignedDicts(1) :
          /\ merge_in' = <<seg>>
          /\ merged' = <<merge_in'[1]>>
    /\ mi' = 1
    /\ pc' = "merge_loop"
    /\ UNCHANGED <<restVars, assignVars, max_gap, remerged, mapVars>>

(* one iteration of `for seg in assigned[1:]` *)
MergeLoop ==
    /\ pc = "merge_loop"
    /\ mi < MaxAssigned
    /\ \E seg \in AssignedDicts(mi + 1) :
          /\ InTimeOrder(merge_in, seg)
          /\ merge_in' = Append(merge_in, seg)
          /\ merged' = MergeIter(merged, seg, max_gap)
    /\ mi' = mi + 1
    /\ UNCHANGED <<restVars, assignVars, max_gap, remerged, mapVars, pc>>

(* return merged *)
MergeReturn ==
    /\ pc = "merge_loop"
    /\ pc' = "merged"
    /\ UNCHANGED <<restVars, assignVars, mergeVars, mapVars>>

(* merge_consecutive applied to its own result, max_gap unchanged *)
Remerge ==
    /\ pc = "merged"
    /\ remerged' = merge_consecutive(merged, max_gap)
    /\ pc' = "remerged"
    /\ UNCHANGED <<restVars, assignVars, merge_in, max_gap, merged, mi, mapVars>>

NextMerge == MergeEmpty \/ MergeFirst \/ MergeLoop \/ MergeReturn \/ Remerge

SpecMerge == InitMerge /\ [][NextMerge]_vars

----------------------------------------------------------------------------
(* apply_speaker_map *)

(* dict.get(key, default) *)
Get(mapping, key, default) ==
    IF key \in DOMAIN mapping THEN mapping[key] ELSE default

(* variant: an empty entry is used like any other *)
RenamedKeepEmpty(seg, mapping) ==
    [seg EXCEPT !.speaker = Get(mapping, seg.speaker, seg.speaker)]

(* {**seg, "speaker": spk if spk else seg["speaker"]} *)
Renamed(seg, mapping) ==
    LET spk == Get(mapping, seg.speaker, seg.speaker)
    IN  [seg EXCEPT !.speaker = IF spk # "" THEN spk ELSE seg.speaker]

(* variant: for seg in merged[1:] *)
ApplySkipFirst(m, file) ==
    IF ~file.exists \/ m = <<>> THEN m
    ELSE [a \in 1 .. Len(m) - 1 |-> Renamed(m[a + 1], file.mapping)]

(* if not os.path.exists(map_path): return merged; else one dict per segment *)
apply_speaker_map(m, file) ==
    IF ~file.exists THEN m
    ELSE [a \in 1 .. Len(m) |-> Renamed(m[a], file.mapping)]

(* Inputs: a map file keyed by diarization labels, each entry a display     *)
(* name or the empty string, and merged segments whose speaker is a label   *)
(* or "UNKNOWN"                                                             *)
DisplayNames == {"", "A", "B", "N"}

Mappings == UNION {[K -> DisplayNames] : K \in SUBSET Labels}

MapFiles == {NoFile} \cup {[exists |-> TRUE, mapping |-> m] : m \in Mappings}

MergedDicts ==
    {s \in [start : Times, end : Times, speaker : Labels \cup {"UNKNOWN"},
            text : {<<"a">>}] : s.start <= s.end}

InitMap ==
    /\ map_file \in MapFiles
    /\ map_in = <<>>
    /\ renamed = <<>>
    /\ renamed2 = <<>>
    /\ whisper_segs = <<>> /\ diar_turns = <<>> /\ assigned = <<>> /\ j = 0
    /\ merge_in = <<>> /\ max_gap = 0 /\ merged = <<>> /\ mi = 0
    /\ remerged = <<>>
    /\ RestIdle
    /\ pc = "map_input"

(* the caller builds the list it is going to pass *)
SupplyMerged ==
    /\ pc = "map_input"
    /\ Len(map_in) < MaxMerged
    /\ \E seg \in MergedDicts :
          /\ InTimeOrder(map_in, seg)
          /\ map_in' = Append(map_in, seg)
    /\ UNCHANGED <<restVars, assignVars, mergeVars, map_file, renamed, renamed2, pc>>

(* renamed = apply_speaker_map(merged, map_path) *)
ApplySpeakerMap ==
    /\ pc = "map_input"
    /\ renamed' = apply_speaker_map(map_in, map_file)
    /\ pc' = "mapped"
    /\ UNCHANGED <<restVars, assignVars, mergeVars, map_file, map_in, renamed2>>

(* the same map applied to the result *)
ApplyAgain ==
    /\ pc = "mapped"
    /\ renamed2' = apply_speaker_map(renamed, map_file)
    /\ pc' = "mapped2"
    /\ UNCHANGED <<restVars, assignVars, mergeVars, map_file, map_in, renamed>>

NextMap == SupplyMerged \/ ApplySpeakerMap \/ ApplyAgain

SpecMap == InitMap /\ [][NextMap]_vars

----------------------------------------------------------------------------
(* main, lines 136-143: runs of the pipeline that share one speaker-map path *)

(* variant: the template maps every label to itself *)
WriteMapLabelAsName(m) ==
    [exists |-> TRUE,
     mapping |-> [spk \in {m[a].speaker : a \in DOMAIN m} |-> spk]]

(* speakers = sorted({seg["speaker"] for seg in merged});                   *)
(* json.dump({spk: "" for spk in speakers}, f): the file after the call     *)
write_speaker_map(m) ==
    [exists |-> TRUE,
     mapping |-> [spk \in {m[a].speaker : a \in DOMAIN m} |-> ""]]

(* the merged segments of a run; write_speaker_map and apply_speaker_map    *)
(* read the speaker only, so the segments of these runs are instants        *)
RunSegs == {s \in MergedDicts : s.end = s.start}

InitRuns ==
    /\ map_file \in MapFiles
    /\ map_in = <<>> /\ renamed = <<>> /\ renamed2 = <<>>
    /\ AssignIdle /\ MergeIdle /\ RestIdle
    /\ pc = "run_idle"

(* a run starts *)
RunStart ==
    /\ pc \in {"run_idle", "run_done"}
    /\ map_in' = <<>>
    /\ renamed' = <<>>
    /\ pc' = "run_merge"
    /\ UNCHANGED <<restVars, assignVars, mergeVars, map_file, renamed2>>

(* merged = merge_consecutive(assigned): the list as the run builds it *)
RunSupply ==
    /\ pc = "run_merge"
    /\ Len(map_in) < MaxMerged
    /\ \E seg \in RunSegs :
          /\ InTimeOrder(map_in, seg)
          /\ map_in' = Append(map_in, seg)
    /\ UNCHANGED <<restVars, assignVars, mergeVars, map_file, renamed, renamed2, pc>>

(* if not os.path.exists(args.speaker_map): write_speaker_map(merged, ...) *)
RunWriteMap ==
    /\ pc = "run_merge"
    /\ ~map_file.exists
    /\ map_file' = write_speaker_map(map_in)
    /\ pc' = "run_apply"
    /\ UNCHANGED <<restVars, assignVars, mergeVars, map_in, renamed, renamed2>>

(* the file is there: line 138 is not executed *)
RunKeepMap ==
    /\ pc = "run_merge"
    /\ map_file.exists
    /\ pc' = "run_apply"
    /\ UNCHANGED <<restVars, assignVars, mergeVars, mapVars>>

(* merged = apply_speaker_map(merged, args.speaker_map) *)
RunApply ==
    /\ pc = "run_apply"
    /\ renamed' = apply_speaker_map(map_in, map_file)
    /\ pc' = "run_done"
    /\ UNCHANGED <<restVars, assignVars, mergeVars, map_file, map_in, renamed2>>

(* "Edit this file to map e.g. 'SPEAKER_00' to 'Akshay', then rerun to apply." *)
UserEdit ==
    /\ pc = "run_done"
    /\ map_file.exists
    /\ \E k \in DOMAIN map_file.mapping, n \in DisplayNames :
          /\ n # map_file.mapping[k]
          /\ map_file' = [map_file EXCEPT !.mapping[k] = n]
    /\ UNCHANGED <<restVars, assignVars, mergeVars, map_in, renamed, renamed2, pc>>

NextRuns == RunStart \/ RunSupply \/ RunWriteMap \/ RunKeepMap \/ RunApply \/ UserEdit

SpecRuns == InitRuns /\ [][NextRuns]_vars

----------------------------------------------------------------------------
(* assign_speakers and merge_consecutive on lists that may hold an interval  *)
(* with end < start: main, lines 131-134, with nothing assumed of the input  *)

AnyTurnDicts == [start : Times, end : Times, speaker : Labels]

AnySegDicts == [start : Times, end : Times, text : SegTexts]

InitMalformed ==
    /\ whisper_segs = <<>>
    /\ diar_turns \in {SortByStart(t) : t \in SeqsUpTo(AnyTurnDicts, MaxTurns)}
    /\ assigned = <<>>
    /\ j = 0
    /\ merge_in = <<>> /\ max_gap \in 0 .. MaxGap /\ merged = <<>> /\ mi = 0
    /\ remerged = <<>>
    /\ MapIdle /\ RestIdle
    /\ pc = "assign_any"

(* one iteration of `for seg in whisper_segs`: no line of it looks at the    *)
(* order of start and end                                                    *)
AssignAny ==
    /\ pc = "assign_any"
    /\ Len(assigned) < MaxSegs
    /\ \E seg \in AnySegDicts :
          /\ InTimeOrder(whisper_segs, seg)
          /\ whisper_segs' = Append(whisper_segs, seg)
          /\ LET j1 == SkipTurns(j, diar_turns, seg.start)
             IN  /\ j' = j1
                 /\ assigned' = Append(assigned, AssignedDict(seg, j1, diar_turns))
    /\ UNCHANGED <<restVars, diar_turns, mergeVars, mapVars, pc>>

(* merged = merge_consecutive(assigned) *)
MergeAny ==
    /\ pc = "assign_any"
    /\ merge_in' = assigned
    /\ merged' = merge_consecutive(assigned, max_gap)
    /\ mi' = Len(assigned)
    /\ pc' = "merged_any"
    /\ UNCHANGED <<restVars, assignVars, max_gap, remerged, mapVars>>

NextMalformed == AssignAny \/ MergeAny

SpecMalformed == InitMalformed /\ [][NextMalformed]_vars

----------------------------------------------------------------------------
(* load_whisper_segments, and apply_speaker_map, on files that may be missing *)

FileNotFound == "<FileNotFoundError>"     \* the call raised: no value returned

(* variant: a missing file read as an empty transcript *)
LoadMissingAsEmpty(file) ==
    IF ~file.exists THEN <<>> ELSE Get(file.data, "segments", <<>>)

(* with open(json_path, "r") as f: data = json.load(f)                      *)
(* return data.get("segments", [])                                          *)
load_whisper_segments(file) ==
    IF ~file.exists THEN FileNotFound ELSE Get(file.data, "segments", <<>>)

(* the JSON documents at json_path: with a "segments" array, or without one *)
JsonDocs ==
    {[text |-> <<"a">>]}
        \cup {[text |-> <<"a">>, segments |-> g] : g \in SeqsUpTo(SegDicts, 1)}

JsonFiles ==
    {[exists |-> FALSE, data |-> <<>>]}
        \cup {[exists |-> TRUE, data |-> d] : d \in JsonDocs}

InitLoad ==
    /\ whisper_json \in JsonFiles
    /\ loaded = <<>>
    /\ write_in = <<>> /\ include_timestamps = TRUE
    /\ out_file = <<>> /\ wx_lines = <<>>
    /\ map_file \in MapFiles
    /\ map_in = <<>> /\ renamed = <<>> /\ renamed2 = <<>>
    /\ AssignIdle /\ MergeIdle /\ HeapIdle /\ SessIdle /\ ChunkIdle /\ MinutesIdle
    /\ pc = "load"

(* whisper_segs = load_whisper_segments(args.whisper_json) *)
LoadWhisperSegments ==
    /\ pc = "load"
    /\ loaded' = load_whisper_segments(whisper_json)
    /\ pc' = "load_map_input"
    /\ UNCHANGED <<chunkVars, minVars, whisper_json, write_in, include_timestamps, out_file, wx_lines,
                   heapVars, sessVars, assignVars, mergeVars, mapVars>>

(* the caller of apply_speaker_map builds the list it is going to pass *)
LoadSupplyMerged ==
    /\ pc = "load_map_input"
    /\ Len(map_in) < MaxMerged
    /\ \E seg \in MergedDicts :
          /\ InTimeOrder(map_in, seg)
          /\ map_in' = Append(map_in, seg)
    /\ UNCHANGED <<restVars, assignVars, mergeVars, map_file, renamed, renamed2, pc>>

(* apply_speaker_map(merged, map_path): no statement of it raises for a     *)
(* missing file                                                             *)
LoadApplySpeakerMap ==
    /\ pc = "load_map_input"
    /\ renamed' = apply_speaker_map(map_in, map_file)
    /\ pc' = "load_applied"
    /\ UNCHANGED <<restVars, assignVars, mergeVars, map_file, map_in, renamed2>>

NextLoad == LoadWhisperSegments \/ LoadSupplyMerged \/ LoadApplySpeakerMap

SpecLoad == InitLoad /\ [][NextLoad]_vars

----------------------------------------------------------------------------
(* hms and write_conversation *)

(* A start time of this part counts half seconds, so that round() has a      *)
(* fraction to round; a string is the sequence of its characters, a speaker  *)
(* label counting as one.                                                    *)

(* round(seconds): to the nearest whole number, a half to the even one *)
Round(half_seconds) ==
    LET q == half_seconds \div 2
    IN  IF half_seconds % 2 = 0 THEN q
        ELSE IF q % 2 = 0 THEN q ELSE q + 1

Digit(d) == <<"0", "1", "2", "3", "4", "5", "6", "7", "8", "9">>[d + 1]

(* "%d" % n, n >= 0 *)
RECURSIVE DecStr(_)
DecStr(n) == IF n < 10 THEN <<Digit(n)>> ELSE DecStr(n \div 10) \o <<Digit(n % 10)>>

(* "%02d" % n, n >= 0 *)
Pad2(n) == IF n < 10 THEN <<"0">> \o DecStr(n) ELSE DecStr(n)

(* variant: the days folded into the hours *)
TimedeltaStrHours(r) ==
    DecStr(r \div 3600) \o <<":">> \o Pad2((r % 3600) \div 60)
        \o <<":">> \o Pad2(r % 60)

(* str(timedelta(seconds=r)), r >= 0: "H:MM:SS" of the seconds within the   *)
(* day, after "D day, " or "D days, " when there are whole days             *)
TimedeltaStr(r) ==
    LET days == r \div 86400
        secs == r % 86400
        s    == DecStr(secs \div 3600) \o <<":">> \o Pad2((secs % 3600) \div 60)
                    \o <<":">> \o Pad2(secs % 60)
    IN  IF days = 0 THEN s
        ELSE DecStr(days) \o <<" ", "d", "a", "y">>
                 \o (IF days # 1 THEN <<"s">> ELSE <<>>) \o <<",", " ">> \o s

(* len(s.split(sep)) *)
SplitLen(str, sep) == Cardinality({a \in DOMAIN str : str[a] = sep}) + 1

(* s = str(td); if len(s.split(":")) == 2: s = "0:" + s *)
hms(half_seconds) ==
    LET str == TimedeltaStr(Round(half_seconds))
    IN  IF SplitLen(str, ":") = 2 THEN <<"0", ":">> \o str ELSE str

(* ts = f"[{hms(seg['start'])}]" if include_timestamps else ""              *)
(* line = f"{ts} {seg['speaker']}: {seg['text']}".strip()                   *)
ConversationLine(seg, timestamps) ==
    LET ts == IF timestamps THEN <<"[">> \o hms(seg.start) \o <<"]">> ELSE <<>>
    IN  Strip(ts \o <<" ">> \o <<seg.speaker>> \o <<":", " ">> \o seg.text)

(* the segments written: starts in half seconds around the minute, the hour *)
(* and the day                                                              *)
HalfSecondStarts == {0, 1, 3, 119, 7199, 72000, 172799, 172800, 180122, 345600}

WriteDicts ==
    {[start |-> h, end |-> h, speaker |-> spk, text |-> t] :
        h \in HalfSecondStarts, spk \in {"A", "UNKNOWN"}, t \in {<<>>, <<"a">>}}

InitWrite ==
    /\ write_in = <<>>
    /\ include_timestamps \in BOOLEAN
    /\ out_file = <<>>
    /\ wx_lines = <<>>
    /\ whisper_json = [exists |-> FALSE, data |-> <<>>] /\ loaded = <<>>
    /\ AssignIdle /\ MergeIdle /\ MapIdle /\ HeapIdle /\ SessIdle /\ ChunkIdle /\ MinutesIdle
    /\ pc = "write"

(* one iteration of `for seg in merged`: f.write(line + "\n") *)
WriteLoop ==
    /\ pc = "write"
    /\ Len(write_in) < MaxMerged
    /\ \E seg \in WriteDicts :
          /\ InTimeOrder(write_in, seg)
          /\ write_in' = Append(write_in, seg)
          /\ out_file' = out_file \o ConversationLine(seg, include_timestamps)
                             \o <<"\n">>
    /\ UNCHANGED <<chunkVars, minVars, whisper_json, loaded, include_timestamps, wx_lines,
                   heapVars, sessVars, assignVars, mergeVars, mapVars, pc>>

(* the file is closed *)
WriteClose ==
    /\ pc = "write"
    /\ pc' = "written"
    /\ UNCHANGED <<restVars, assignVars, mergeVars, mapVars>>

(* transcribe_to_conversation (whisperx_convo.py), lines 56-73, on the same *)
(* segments                                                                 *)

(* t = int(round(t)); f"{t//3600:02}:{(t%3600)//60:02}:{t%60:02}" *)
WxHms(half_seconds) ==
    LET t == Round(half_seconds)
    IN  Pad2(t \div 3600) \o <<":">> \o Pad2((t % 3600) \div 60)
            \o <<":">> \o Pad2(t % 60)

(* for seg in result["segments"]: ...; the state is lines, last_spk, buf *)
RECURSIVE WxLoop(_, _, _, _, _)
WxLoop(segs, lines, last_spk, buf, timestamps) ==
    IF segs = <<>>
    THEN IF buf # <<>> THEN Append(lines, Strip(buf)) ELSE lines
    ELSE LET seg  == Head(segs)
             spk  == seg.speaker
             text == Strip(seg.text)
         IN  IF spk # last_spk
             THEN LET ts == IF timestamps
                            THEN <<"[">> \o WxHms(seg.start) \o <<"]", " ">>
                            ELSE <<>>
                  IN  WxLoop(Tail(segs),
                             IF buf # <<>> THEN Append(lines, Strip(buf)) ELSE lines,
                             spk, ts \o <<spk>> \o <<":", " ">> \o text, timestamps)
             ELSE WxLoop(Tail(segs), lines, last_spk, buf \o <<" ">> \o text,
                         timestamps)

(* "\n".join(lines) + "\n" *)
RECURSIVE WxJoin(_)
WxJoin(lines) ==
    IF lines = <<>> THEN <<>>
    ELSE IF Len(lines) = 1 THEN lines[1]
    ELSE lines[1] \o <<"\n">> \o WxJoin(Tail(lines))

WxFile(lines) == WxJoin(lines) \o <<"\n">>

(* the WhisperX path builds its conversation.md from the same segments *)
WxConversation ==
    /\ pc = "written"
    /\ wx_lines' = WxLoop(write_in, <<>>, None, <<>>, include_timestamps)
    /\ pc' = "wx_written"
    /\ UNCHANGED <<chunkVars, minVars, whisper_json, loaded, write_in, include_timestamps, out_file,
                   heapVars, sessVars, assignVars, mergeVars, mapVars>>

NextWrite == WriteLoop \/ WriteClose \/ WxConversation

SpecWrite == InitWrite /\ [][NextWrite]_vars

----------------------------------------------------------------------------
(* The three functions on dicts that have an identity: a list holds          *)
(* references, heap[r] is the dict the reference r names, and an assignment  *)
(* to last["end"] changes the dict `last` names, whoever else holds it.      *)

(* variant: the dict itself instead of a copy of it *)
SameDict(h, r) == [heap |-> h, ref |-> r]

(* d.copy(): a new dict with the same entries *)
CopyDict(h, r) == [heap |-> Append(h, h[r]), ref |-> Len(h) + 1]

(* the dicts a list of references names *)
Deref(h, refs) == [a \in DOMAIN refs |-> h[refs[a]]]

(* the references of n dicts allocated after those of h *)
NewRefs(h, n) == [a \in 1 .. n |-> Len(h) + a]

InitHeap ==
    /\ heap = <<>> /\ heap0 = <<>> /\ arg_refs = <<>> /\ res_refs = <<>>
    /\ AssignIdle /\ MergeIdle /\ MapIdle /\ IoIdle /\ SessIdle /\ ChunkIdle /\ MinutesIdle
    /\ pc = "heap_input"

(* the caller builds the list it is going to pass *)
HeapSupply ==
    /\ pc = "heap_input"
    /\ Len(heap) < MaxCallSegs
    /\ \E seg \in AssignedDicts(Len(heap) + 1) :
          /\ InTimeOrder(heap, seg)
          /\ heap' = Append(heap, seg)
          /\ arg_refs' = Append(arg_refs, Len(heap) + 1)
    /\ UNCHANGED <<chunkVars, minVars, heap0, res_refs, ioVars, sessVars, assignVars, mergeVars,
                   mapVars, pc>>

(* merge_consecutive(assigned, max_gap) is called:                          *)
(* if not assigned: return []; merged = [assigned[0].copy()]                *)
HeapMergeCall ==
    /\ pc = "heap_input"
    /\ heap0' = heap
    /\ max_gap' \in 0 .. MaxGap
    /\ IF arg_refs = <<>>
       THEN /\ res_refs' = <<>>
            /\ pc' = "heap_returned"
            /\ UNCHANGED <<chunkVars, minVars, heap, mi>>
       ELSE LET c == CopyDict(heap, arg_refs[1])
            IN  /\ heap' = c.heap
                /\ res_refs' = <<c.ref>>
                /\ mi' = 1
                /\ pc' = "heap_merge"
    /\ UNCHANGED <<chunkVars, minVars, arg_refs, ioVars, sessVars, assignVars, merge_in, merged,
                   remerged, mapVars>>

(* one iteration of `for seg in assigned[1:]`: last = merged[-1]; then      *)
(* last["end"] = ...; last["text"] = ...  or  merged.append(seg.copy())     *)
HeapMergeLoop ==
    /\ pc = "heap_merge"
    /\ mi < Len(arg_refs)
    /\ LET seg  == arg_refs[mi + 1]
           last == res_refs[Len(res_refs)]
       IN  IF MergeCond(heap[last], heap[seg], max_gap)
           THEN /\ heap' = [heap EXCEPT ![last] = Extend(heap[last], heap[seg])]
                /\ UNCHANGED res_refs
           ELSE LET c == CopyDict(heap, seg)
                IN  /\ heap' = c.heap
                    /\ res_refs' = Append(res_refs, c.ref)
    /\ mi' = mi + 1
    /\ UNCHANGED <<chunkVars, minVars, heap0, arg_refs, ioVars, sessVars, assignVars, merge_in,
                   max_gap, merged, remerged, mapVars, pc>>

(* return merged *)
HeapMergeReturn ==
    /\ pc = "heap_merge"
    /\ mi = Len(arg_refs)
    /\ pc' = "heap_returned"
    /\ UNCHANGED <<restVars, assignVars, mergeVars, mapVars>>

(* apply_speaker_map(merged, map_path): the list itself when there is no    *)
(* file, else a new list of new dicts {**seg, "speaker": ...}               *)
HeapApplyCall ==
    /\ pc = "heap_input"
    /\ heap0' = heap
    /\ map_file' \in MapFiles
    /\ IF ~map_file'.exists
       THEN /\ res_refs' = arg_refs
            /\ UNCHANGED heap
       ELSE /\ heap' = heap \o apply_speaker_map(Deref(heap, arg_refs), map_file')
            /\ res_refs' = NewRefs(heap, Len(arg_refs))
    /\ pc' = "heap_returned"
    /\ UNCHANGED <<chunkVars, minVars, arg_refs, ioVars, sessVars, assignVars, mergeVars,
                   map_in, renamed, renamed2>>

(* assign_speakers(whisper_segs, diar_turns): a new list of new dicts built *)
(* from start, end and text of the segments                                 *)
HeapAssignCall ==
    /\ pc = "heap_input"
    /\ heap0' = heap
    /\ diar_turns' \in {SortByStart(t) : t \in SeqsUpTo(TurnDicts, 1)}
    /\ heap' = heap \o assign_speakers(Deref(heap, arg_refs), diar_turns')
    /\ res_refs' = NewRefs(heap, Len(arg_refs))
    /\ pc' = "heap_returned"
    /\ UNCHANGED <<chunkVars, minVars, arg_refs, ioVars, sessVars, whisper_segs, assigned, j,
                   mergeVars, mapVars>>

NextHeap ==
    \/ HeapSupply \/ HeapMergeCall \/ HeapMergeLoop \/ HeapMergeReturn
    \/ HeapApplyCall \/ HeapAssignCall

SpecHeap == InitHeap /\ [][NextHeap]_vars

----------------------------------------------------------------------------
(* The three functions on empty lists *)

InitEmpty ==
    /\ AssignIdle /\ MergeIdle /\ MapIdle /\ RestIdle
    /\ pc = "empty_input"

(* the caller builds the segments it is going to pass without turns *)
EmptySupplySegs ==
    /\ pc = "empty_input"
    /\ Len(whisper_segs) < MaxSegs
    /\ \E seg \in SegDicts :
          /\ InTimeOrder(whisper_segs, seg)
          /\ whisper_segs' = Append(whisper_segs, seg)
    /\ UNCHANGED <<restVars, diar_turns, assigned, j, mergeVars, mapVars, pc>>

(* assign_speakers([], diar_turns) *)
AssignNoSegs ==
    /\ pc = "empty_input"
    /\ whisper_segs = <<>>
    /\ diar_turns' \in {SortByStart(t) : t \in SeqsUpTo(TurnDicts, MaxTurns)}
    /\ assigned' = assign_speakers(<<>>, diar_turns')
    /\ pc' = "assigned_no_segs"
    /\ UNCHANGED <<restVars, whisper_segs, j, mergeVars, mapVars>>

(* assign_speakers(whisper_segs, []) *)
AssignNoTurns ==
    /\ pc = "empty_input"
    /\ diar_turns' = <<>>
    /\ assigned' = assign_speakers(whisper_segs, <<>>)
    /\ pc' = "assigned_no_turns"
    /\ UNCHANGED <<restVars, whisper_segs, j, mergeVars, mapVars>>

(* merge_consecutive([], max_gap) *)
MergeNoSegs ==
    /\ pc = "empty_input"
    /\ max_gap' \in 0 .. MaxGap
    /\ merged' = merge_consecutive(<<>>, max_gap')
    /\ pc' = "merged_no_segs"
    /\ UNCHANGED <<restVars, assignVars, merge_in, mi, remerged, mapVars>>

(* apply_speaker_map([], map_path) *)
ApplyNoSegs ==
    /\ pc = "empty_input"
    /\ map_file' \in MapFiles
    /\ renamed' = apply_speaker_map(<<>>, map_file')
    /\ pc' = "applied_no_segs"
    /\ UNCHANGED <<restVars, assignVars, mergeVars, map_in, renamed2>>

NextEmpty ==
    EmptySupplySegs \/ AssignNoSegs \/ AssignNoTurns \/ MergeNoSegs \/ ApplyNoSegs

SpecEmpty == InitEmpty /\ [][NextEmpty]_vars

----------------------------------------------------------------------------
(* The Streamlit session (app_streamlit.py): st.session_state and the        *)
(* handlers of the buttons.  A transcript is known by the number of the run  *)
(* that produced it; a conversation and a segment list record the transcript *)
(* they were derived from.  A handler that stops on st.error, or whose call  *)
(* raises, leaves the session as it was and is no step.  The functions the   *)
(* handlers call are taken at their call sites: by what is passed to them    *)
(* and where their result is stored.                                         *)

InitSession ==
    /\ SessIdle
    /\ AssignIdle /\ MergeIdle /\ MapIdle /\ IoIdle /\ HeapIdle /\ ChunkIdle /\ MinutesIdle
    /\ pc = "session"

(* if load_transcript_btn: transcript = {"text": tmp_path, "json": "", ...}; *)
(* conversation_path = None                                                  *)
LoadUploadedTranscript ==
    /\ pc = "session"
    /\ next_run < MaxTranscripts
    /\ next_run' = next_run + 1
    /\ transcript' = [id |-> next_run + 1, json |-> FALSE]
    /\ conversation_path' = NoPath
    /\ UNCHANGED <<chunkVars, minVars, merged_segments, minutes_src, ioVars, heapVars,
                   assignVars, mergeVars, mapVars, pc>>

(* if run_transcribe: transcript = transcribe_whisper(...) *)
RunTranscription ==
    /\ pc = "session"
    /\ next_run < MaxTranscripts
    /\ next_run' = next_run + 1
    /\ transcript' = [id |-> next_run + 1, json |-> TRUE]
    /\ UNCHANGED <<chunkVars, minVars, merged_segments, conversation_path, minutes_src, ioVars,
                   heapVars, assignVars, mergeVars, mapVars, pc>>

(* if run_whisperx: res = transcribe_to_conversation(...); transcript = ...; *)
(* conversation_path = res["conversation"]; merged_segments = None           *)
RunWhisperX ==
    /\ pc = "session"
    /\ next_run < MaxTranscripts
    /\ next_run' = next_run + 1
    /\ transcript' = [id |-> next_run + 1, json |-> TRUE]
    /\ conversation_path' = [from |-> next_run + 1]
    /\ merged_segments' = NoSegments
    /\ UNCHANGED <<chunkVars, minVars, minutes_src, ioVars, heapVars, assignVars, mergeVars,
                   mapVars, pc>>

(* if run_diar_btn: merged = assign_speakers_to_whisper_segments(            *)
(*     transcript["json"], turns); merged_segments = merged                  *)
RunSpeakerIdentification ==
    /\ pc = "session"
    /\ transcript # NoTranscript
    /\ transcript.json
    /\ merged_segments' = [from |-> transcript.id]
    /\ UNCHANGED <<chunkVars, minVars, transcript, conversation_path, minutes_src, next_run, ioVars,
                   heapVars, assignVars, mergeVars, mapVars, pc>>

(* if st.session_state.merged_segments: if st.button("Apply Names ..."):     *)
(* the conversation of merged_segments is written under transcript["dir"]    *)
ApplyNames ==
    /\ pc = "session"
    /\ merged_segments # NoSegments
    /\ conversation_path' = [from |-> merged_segments.from]
    /\ UNCHANGED <<chunkVars, minVars, transcript, merged_segments, minutes_src, next_run, ioVars,
                   heapVars, assignVars, mergeVars, mapVars, pc>>

(* if run_minutes: source_txt = conversation_path if conversation_path else  *)
(* transcript["text"] if transcript else None; stops without a source        *)
GenerateMinutes ==
    /\ pc = "session"
    /\ conversation_path # NoPath \/ transcript # NoTranscript
    /\ minutes_src' =
          [from |-> IF conversation_path # NoPath THEN conversation_path.from
                    ELSE transcript.id,
           held |-> transcript.id]
    /\ UNCHANGED <<chunkVars, minVars, transcript, merged_segments, conversation_path, next_run,
                   ioVars, heapVars, assignVars, mergeVars, mapVars, pc>>

NextSession ==
    \/ LoadUploadedTranscript \/ RunTranscription \/ RunWhisperX
    \/ RunSpeakerIdentification \/ ApplyNames \/ GenerateMinutes

SpecSession == InitSession /\ [][NextSession]_vars

----------------------------------------------------------------------------
(* text_to_meetmins.py: _chunk_text                                        *)
(* A text is a sequence of one-character strings; indices are Python's,    *)
(* counted from 0.                                                         *)

MaxTail == 2

(* the literal of `if last > 1000` and the default of max_chars *)
BreakAfter == 1000
DefaultMaxChars == 12000

Chars == {"a", ".", "?", " ", "\n"}

(* text[lo:hi] for 0 <= lo *)
Slice(text, lo, hi) == SubSeq(text, lo + 1, Min(hi, Len(text)))

MaxOf(S) == CHOOSE m \in S : \A x \in S : x <= m

(* chunk.rfind(pat): the highest index where pat occurs, -1 when nowhere *)
RFind(chunk, pat) ==
    MaxOf({-1} \cup {k \in 0 .. Len(chunk) - Len(pat) :
                        SubSeq(chunk, k + 1, k + Len(pat)) = pat})

LastBreak(chunk) ==
    MaxOf({RFind(chunk, <<".", " ">>), RFind(chunk, <<"?", " ">>),
           RFind(chunk, <<"!", " ">>), RFind(chunk, <<"\n">>)})

(* the chunk taken at index i: lines 38-41 *)
ChunkAt(text, i, n) ==
    LET chunk == Slice(text, i, i + n)
        last  == LastBreak(chunk)
    IN  IF last > BreakAfter THEN Slice(chunk, 0, last + 1) ELSE chunk

(* a variant that advances by the window, not by what was taken *)
AdvanceByWindow(i, chunk, n) == i + n

(* i += len(chunk) *)
Advance(i, chunk, n) == i + Len(chunk)

(* The texts: a short head, then either nothing more (a short text) or a   *)
(* run of BreakAfter letters, a short tail and possibly a second run, so   *)
(* that a break can fall before, at and after index BreakAfter.            *)
Filler == [k \in 1 .. BreakAfter |-> "a"]

ShortTexts == SeqsUpTo(Chars, MaxTail + 1)

LongTexts ==
    {h \o Filler \o t \o g : h \in SeqsUpTo(Chars, 1), t \in SeqsUpTo(Chars, MaxTail),
                             g \in {<<>>, Filler}}

(* the window sizes tried: around the text's own scale, and the default *)
ChunkSizes(text) ==
    (IF Len(text) < BreakAfter THEN 1 .. MaxTail + 1
     ELSE {BreakAfter + d : d \in 0 .. MaxTail + 2})
    \cup {DefaultMaxChars}

InitChunk ==
    /\ full_text \in ShortTexts \cup LongTexts
    /\ max_chars \in ChunkSizes(full_text)
    /\ parts = <<>>
    /\ ci = 0
    /\ pc = "chunk_call"
    /\ AssignIdle /\ MergeIdle /\ MapIdle /\ IoIdle /\ HeapIdle /\ SessIdle
    /\ MinutesIdle

(* lines 34-35 *)
ChunkWhole ==
    /\ pc = "chunk_call"
    /\ Len(full_text) <= max_chars
    /\ parts' = <<full_text>>
    /\ pc' = "chunk_done"
    /\ UNCHANGED <<full_text, max_chars, ci, minVars, ioVars, heapVars, sessVars,
                   assignVars, mergeVars, mapVars>>

(* line 36 *)
ChunkStart ==
    /\ pc = "chunk_call"
    /\ Len(full_text) > max_chars
    /\ parts' = <<>>
    /\ ci' = 0
    /\ pc' = "chunk_loop"
    /\ UNCHANGED <<full_text, max_chars, minVars, ioVars, heapVars, sessVars,
                   assignVars, mergeVars, mapVars>>

(* one iteration of the while loop, lines 37-43 *)
ChunkLoop ==
    /\ pc = "chunk_loop"
    /\ ci < Len(full_text)
    /\ LET chunk == ChunkAt(full_text, ci, max_chars)
       IN  /\ parts' = Append(parts, chunk)
           /\ ci' = Advance(ci, chunk, max_chars)
    /\ UNCHANGED <<full_text, max_chars, minVars, ioVars, heapVars, sessVars,
                   assignVars, mergeVars, mapVars, pc>>

(* line 44 *)
ChunkReturn ==
    /\ pc = "chunk_loop"
    /\ ci >= Len(full_text)
    /\ pc' = "chunk_done"
    /\ UNCHANGED <<chunkVars, minVars, ioVars, heapVars, sessVars,
                   assignVars, mergeVars, mapVars>>

NextChunk == ChunkWhole \/ ChunkStart \/ ChunkLoop \/ ChunkReturn

SpecChunk == InitChunk /\ [][NextChunk]_vars

----------------------------------------------------------------------------
(* text_to_meetmins.py: make_minutes_from_text                             *)
(* Of what the LLM answers, the action items are modelled: they decide     *)
(* the CSV branch. A chunk is kept by its place only.                      *)

MaxChunks == 2
MaxItems == 1

(* the items an "actions" list can hold: dicts with a task and an owner   *)
(* (due and timestamp absent, so .get gives ""), and things that are no   *)
(* dict                                                                   *)
ActionItems ==
    [is_dict : {TRUE}, task : {<<>>, <<"t">>, <<" ", "t">>}, owner : {<<>>},
     due : {<<>>}, timestamp : {<<>>}]
    \cup {[is_dict |-> TRUE, task |-> <<"t">>, owner |-> <<"o">>,
           due |-> <<>>, timestamp |-> <<>>],
          [is_dict |-> FALSE, task |-> <<>>, owner |-> <<>>,
           due |-> <<>>, timestamp |-> <<>>]}

(* what _extract_json returns for one chunk: a dict with a list under     *)
(* "actions" (the empty list in the fallback of line 67), or a JSON value *)
(* that is no dict                                                        *)
Partials ==
    [is_dict : {TRUE}, actions : SeqsUpTo(ActionItems, MaxItems)]
    \cup {[is_dict |-> FALSE, actions |-> <<>>]}

(* lines 78-85: the items of one partial that are kept, stripped *)
RECURSIVE KeptActions(_)
KeptActions(items) ==
    IF items = <<>> THEN <<>>
    ELSE LET a == Head(items)
         IN  (IF a.is_dict /\ a.task # <<>>
              THEN <<[task |-> Strip(a.task), owner |-> Strip(a.owner),
                      due |-> Strip(a.due), timestamp |-> Strip(a.timestamp)]>>
              ELSE <<>>)
             \o KeptActions(Tail(items))

(* lines 71-85: over all partials, skipping what is no dict *)
RECURSIVE GatherActions(_)
GatherActions(ps) ==
    IF ps = <<>> THEN <<>>
    ELSE (IF Head(ps).is_dict THEN KeptActions(Head(ps).actions) ELSE <<>>)
         \o GatherActions(Tail(ps))

(* lines 94-99: the first of each (task, owner, due, timestamp) is kept *)
RECURSIVE Uniq(_, _)
Uniq(acts, seen) ==
    IF acts = <<>> THEN <<>>
    ELSE IF Head(acts) \in seen THEN Uniq(Tail(acts), seen)
    ELSE <<Head(acts)>> \o Uniq(Tail(acts), seen \cup {Head(acts)})

_combine_minutes(ps) == [actions |-> Uniq(GatherActions(ps), {})]

InitMinutes ==
    /\ txt_exists \in BOOLEAN
    /\ partials = <<>> /\ combined = NoMerged
    /\ csv_path = Unbound /\ out_files = NoFiles /\ minutes_ret = NoReturn
    /\ pc = "minutes_call"
    /\ AssignIdle /\ MergeIdle /\ MapIdle /\ IoIdle /\ HeapIdle /\ SessIdle
    /\ ChunkIdle

(* lines 130-131 *)
MinutesMissing ==
    /\ pc = "minutes_call"
    /\ ~txt_exists
    /\ minutes_ret' = [minutes_ret EXCEPT !.raised = "FileNotFoundError"]
    /\ pc' = "minutes_end"
    /\ UNCHANGED <<chunkVars, txt_exists, partials, combined, csv_path, out_files,
                   ioVars, heapVars, sessVars, assignVars, mergeVars, mapVars>>

(* lines 132-142: the transcript is read and cut; _chunk_text gives at    *)
(* least one chunk                                                        *)
MinutesRead ==
    /\ pc = "minutes_call"
    /\ txt_exists
    /\ \E n \in 1 .. MaxChunks : parts' = [k \in 1 .. n |-> <<>>]
    /\ partials' = <<>>
    /\ pc' = "minutes_llm"
    /\ UNCHANGED <<full_text, max_chars, ci, txt_exists, combined, csv_path,
                   out_files, minutes_ret,
                   ioVars, heapVars, sessVars, assignVars, mergeVars, mapVars>>

(* one iteration of the loop of lines 143-149: the LLM call returns *)
MinutesLlm ==
    /\ pc = "minutes_llm"
    /\ Len(partials) < Len(parts)
    /\ \E p \in Partials : partials' = Append(partials, p)
    /\ UNCHANGED <<chunkVars, txt_exists, combined, csv_path, out_files, minutes_ret,
                   ioVars, heapVars, sessVars, assignVars, mergeVars, mapVars, pc>>

(* lines 151-171: the partials are combined, the .md and .txt written *)
MinutesWrite ==
    /\ pc = "minutes_llm"
    /\ Len(partials) = Len(parts)
    /\ combined' = _combine_minutes(partials)
    /\ out_files' = [out_files EXCEPT !.md = TRUE, !.txt = TRUE]
    /\ pc' = "minutes_csv"
    /\ UNCHANGED <<chunkVars, txt_exists, partials, csv_path, minutes_ret,
                   ioVars, heapVars, sessVars, assignVars, mergeVars, mapVars>>

(* lines 173-178: csv_path is a local of the function, bound only by     *)
(* line 180; reading a local that is not bound raises                    *)
MinutesCsv ==
    /\ pc = "minutes_csv"
    /\ combined.actions # <<>>
    /\ IF csv_path = Unbound
       THEN /\ minutes_ret' = [minutes_ret EXCEPT !.raised = "UnboundLocalError"]
            /\ pc' = "minutes_end"
            /\ UNCHANGED out_files
       ELSE /\ out_files' = [out_files EXCEPT !.csv = TRUE, !.rows = combined.actions]
            /\ pc' = "minutes_return"
            /\ UNCHANGED minutes_ret
    /\ UNCHANGED <<chunkVars, txt_exists, partials, combined, csv_path,
                   ioVars, heapVars, sessVars, assignVars, mergeVars, mapVars>>

(* lines 179-180 *)
MinutesNoCsv ==
    /\ pc = "minutes_csv"
    /\ combined.actions = <<>>
    /\ csv_path' = ""
    /\ pc' = "minutes_return"
    /\ UNCHANGED <<chunkVars, txt_exists, partials, combined, out_files, minutes_ret,
                   ioVars, heapVars, sessVars, assignVars, mergeVars, mapVars>>

(* line 182 *)
MinutesReturn ==
    /\ pc = "minutes_return"
    /\ minutes_ret' = [raised |-> "", minutes_md |-> "minutes.md",
                       minutes_txt |-> "minutes.txt", actions_csv |-> csv_path,
                       dir |-> "run_dir"]
    /\ pc' = "minutes_end"
    /\ UNCHANGED <<chunkVars, txt_exists, partials, combined, csv_path, out_files,
                   ioVars, heapVars, sessVars, assignVars, mergeVars, mapVars>>

NextMinutes ==
    \/ MinutesMissing \/ MinutesRead \/ MinutesLlm \/ MinutesWrite
    \/ MinutesCsv \/ MinutesNoCsv \/ MinutesReturn

SpecMinutes == InitMinutes /\ [][NextMinutes]_vars

----------------------------------------------------------------------------
(* Properties of assign_speakers, checked under SpecAssign *)

(* the time a segment and a turn have in common *)
SegTurnOverlap(s, t) == Max(0, Min(s.end, t.end) - Max(s.start, t.start))

(* the largest overlap any of the first n turns has with the segment *)
RECURSIVE MaxOverlapUpTo(_, _, _)
MaxOverlapUpTo(s, turns, n) ==
    IF n = 0 THEN 0
    ELSE LET o    == SegTurnOverlap(s, turns[n])
             rest == MaxOverlapUpTo(s, turns, n - 1)
         IN  IF o >= rest THEN o ELSE rest

(* the largest overlap any of the turns has with the segment, 0 without turns *)
MaxOverlapOf(s, turns) == MaxOverlapUpTo(s, turns, Len(turns))

MaxTurnsOf(s, turns) ==
    LET m == MaxOverlapOf(s, turns)
    IN  {a \in DOMAIN turns : SegTurnOverlap(s, turns[a]) = m}

IsMaxOverlapSpeaker(s, turns, spk) ==
    LET m == MaxOverlapOf(s, turns)
    IN  IF m = 0
        THEN spk = "UNKNOWN"
        ELSE \E a \in DOMAIN turns :
                 turns[a].speaker = spk /\ SegTurnOverlap(s, turns[a]) = m

SortedByStart(turns) ==
    \A a \in 1 .. Len(turns) - 1 : turns[a].start <= turns[a + 1].start

(* C1: with the segments in non-decreasing start order and the turns sorted  *)
(* by start, every assigned segment carries the label of a turn whose        *)
(* overlap with it is maximal over all the turns, and "UNKNOWN" when every   *)
(* turn has zero overlap with it: neither the cursor skip nor the early stop *)
(* of the scan hides the maximal-overlap turn.                               *)
C1_MaxOverlapSpeaker ==
    (NonDecreasingStart(whisper_segs) /\ SortedByStart(diar_turns)) =>
        \A a \in DOMAIN assigned :
            IsMaxOverlapSpeaker(whisper_segs[a], diar_turns, assigned[a].speaker)

(* the cursor has skipped a turn, the scan of the first segment stopped      *)
(* before the last turn, and the second segment got that turn's label        *)
C1_Witness ==
    /\ pc = "assigned"
    /\ Len(assigned) = 2
    /\ Len(diar_turns) = 2
    /\ j > 0
    /\ diar_turns[2].start >= whisper_segs[1].end
    /\ assigned[2].speaker = diar_turns[2].speaker
    /\ diar_turns[1].speaker # diar_turns[2].speaker

Permute(ts, f) == [a \in DOMAIN ts |-> ts[f[a]]]

SpeakersOf(segs) == [a \in DOMAIN segs |-> segs[a].speaker]

(* the speakers of the turns of the set mx that start first *)
EarliestSpeakers(mx, turns) ==
    {turns[a].speaker : a \in {b \in mx :
                                \A c \in mx : turns[b].start <= turns[c].start}}

(* C2 as stated: assign_speakers gives every permutation of the turns the    *)
(* speakers it gives the start-sorted list.                                  *)
C2_AnyOrderSameSpeakers ==
    pc = "assigned" =>
        \A f \in Permutations(DOMAIN diar_turns) :
            SpeakersOf(assign_speakers(whisper_segs, Permute(diar_turns, f)))
                = SpeakersOf(assigned)

(* C2, amended: for every permutation of the turns, the sort of diarize      *)
(* followed by assign_speakers gives every segment a speaker of maximal      *)
(* overlap ("UNKNOWN" when every overlap is zero), and the same speaker as   *)
(* for the list at hand unless maximal-overlap turns of different speakers   *)
(* start together first.                                                     *)
C2_SortedThenAssigned ==
    pc = "assigned" =>
        LET sorted == {SortByStart(Permute(diar_turns, f)) :
                          f \in Permutations(DOMAIN diar_turns)}
            res    == {SpeakersOf(assign_speakers(whisper_segs, t)) : t \in sorted}
        IN  /\ \A r \in res : Len(r) = Len(assigned)
            /\ \A a \in DOMAIN assigned :
                  LET s       == whisper_segs[a]
                      m       == MaxOverlapOf(s, diar_turns)
                      mx      == {b \in DOMAIN diar_turns :
                                     SegTurnOverlap(s, diar_turns[b]) = m}
                      allowed == IF m = 0 THEN {"UNKNOWN"}
                                 ELSE {diar_turns[b].speaker : b \in mx}
                      forced  == \/ m = 0
                                 \/ Cardinality(EarliestSpeakers(mx, diar_turns)) = 1
                  IN  \A r \in res :
                          /\ r[a] \in allowed
                          /\ forced => r[a] = assigned[a].speaker

(* a permutation of the turns that assign_speakers, given it unsorted,       *)
(* answers differently, the turns starting at different times                *)
C2_Witness ==
    /\ pc = "assigned"
    /\ Len(diar_turns) = 2
    /\ diar_turns[1].start < diar_turns[2].start
    /\ SpeakersOf(assign_speakers(whisper_segs, <<diar_turns[2], diar_turns[1]>>))
          # SpeakersOf(assigned)
    /\ SpeakersOf(assign_speakers(whisper_segs,
                                  SortByStart(<<diar_turns[2], diar_turns[1]>>)))
          = SpeakersOf(assigned)

(* C7: when several turns tie for the maximal positive overlap with a        *)
(* segment, the segment gets the label of the first of them in the list,     *)
(* which starts no later than the others; a segment no turn overlaps keeps   *)
(* "UNKNOWN".                                                                *)
C7_FirstOfTiesWins ==
    \A a \in DOMAIN assigned :
        LET s  == whisper_segs[a]
            m  == MaxOverlapOf(s, diar_turns)
            mx == {b \in DOMAIN diar_turns :
                      SegTurnOverlap(s, diar_turns[b]) = m}
        IN  IF m = 0
            THEN assigned[a].speaker = "UNKNOWN"
            ELSE LET first == CHOOSE b \in mx : \A c \in mx : b <= c
                 IN  /\ assigned[a].speaker = diar_turns[first].speaker
                     /\ \A c \in mx :
                           diar_turns[first].start <= diar_turns[c].start

(* two turns of different speakers tie for the maximal positive overlap with *)
(* a segment, and another segment is overlapped by no turn although a turn   *)
(* was scanned for it                                                        *)
C7_Witness ==
    /\ pc = "assigned"
    /\ \E a \in DOMAIN assigned :
          /\ MaxOverlapOf(whisper_segs[a], diar_turns) > 0
          /\ Cardinality(MaxTurnsOf(whisper_segs[a], diar_turns)) = 2
          /\ diar_turns[1].speaker # diar_turns[2].speaker
    /\ \E a \in DOMAIN assigned :
          /\ assigned[a].speaker = "UNKNOWN"
          /\ \E b \in DOMAIN diar_turns :
                /\ diar_turns[b].start < whisper_segs[a].end
                /\ diar_turns[b].end >= whisper_segs[a].start

(* C8: one assigned segment per transcribed segment, in the same order, the  *)
(* a-th carrying the start and the end of the a-th transcribed segment.      *)
C8_LengthAndOrder ==
    /\ Len(assigned) = Len(whisper_segs)
    /\ \A a \in DOMAIN assigned :
          /\ assigned[a].start = whisper_segs[a].start
          /\ assigned[a].end = whisper_segs[a].end

(* two different segments were assigned, one a label and one "UNKNOWN" *)
C8_Witness ==
    /\ pc = "assigned"
    /\ Len(assigned) = 2
    /\ whisper_segs[1].start # whisper_segs[2].start
    /\ whisper_segs[1].end # whisper_segs[1].start
    /\ assigned[1].speaker # "UNKNOWN"
    /\ assigned[2].speaker = "UNKNOWN"

(* C17: no step of the loop decreases the cursor or takes it beyond the      *)
(* number of turns; and, the segments coming in non-decreasing start order,  *)
(* the segment of the step has zero overlap with every turn the cursor had   *)
(* passed before the step (it is a later segment for them) and with every    *)
(* turn the cursor passes in the step.                                       *)
C17_CursorMonotone ==
    [][/\ j <= j'
       /\ j' <= Len(diar_turns)
       /\ (Len(whisper_segs') > Len(whisper_segs) /\ NonDecreasingStart(whisper_segs')) =>
             LET seg == whisper_segs'[Len(whisper_segs')]
             IN  /\ \A t \in 1 .. j : SegTurnOverlap(seg, diar_turns[t]) = 0
                 /\ \A t \in j + 1 .. j' : SegTurnOverlap(seg, diar_turns[t]) = 0]_vars

(* the cursor passed the first turn for the first segment and the second     *)
(* turn, still in reach of the first segment, for the second                 *)
C17_Witness ==
    /\ pc = "assigned"
    /\ Len(whisper_segs) = 2
    /\ Len(diar_turns) = 2
    /\ j = 2
    /\ diar_turns[1].end < whisper_segs[1].start
    /\ diar_turns[2].end >= whisper_segs[1].start
    /\ diar_turns[2].end < whisper_segs[2].start

----------------------------------------------------------------------------
(* Properties of merge_consecutive, checked under SpecMerge *)

(* C3: an iteration of the loop merges the incoming segment into the open    *)
(* accumulator (the last element of merged) exactly when the speakers are    *)
(* equal and start minus the accumulator's end is at most max_gap; otherwise *)
(* it appends the segment as the new accumulator.  The elements before the   *)
(* accumulator are emitted: no iteration changes them, so segments with      *)
(* another speaker's segment between them are never merged.                  *)
C3_MergeExactlyWhen ==
    [][(pc = "merge_loop" /\ mi' = mi + 1) =>
          LET s   == merge_in'[mi + 1]
              acc == merged[Len(merged)]
          IN  /\ IF s.speaker = acc.speaker /\ s.start - acc.end <= max_gap
                 THEN /\ Len(merged') = Len(merged)
                      /\ merged'[Len(merged)].start = acc.start
                      /\ merged'[Len(merged)].end = s.end
                      /\ merged'[Len(merged)].speaker = acc.speaker
                 ELSE merged' = Append(merged, s)
              /\ \A r \in 1 .. Len(merged) - 1 : merged'[r] = merged[r]]_vars

(* three segments: the second merged at a gap of exactly max_gap > 0, the    *)
(* third, of another speaker and within the gap, not merged                  *)
C3_Witness ==
    /\ pc = "merged"
    /\ Len(merge_in) = 3
    /\ max_gap > 0
    /\ merge_in[2].speaker = merge_in[1].speaker
    /\ merge_in[2].start - merge_in[1].end = max_gap
    /\ merge_in[3].speaker # merge_in[1].speaker
    /\ merge_in[3].start - merge_in[2].end <= max_gap
    /\ Len(merged) = 2

TextsOf(segs) == [a \in DOMAIN segs |-> segs[a].text]

(* " ".join(texts) *)
RECURSIVE JoinTexts(_)
JoinTexts(ts) ==
    IF ts = <<>> THEN <<>>
    ELSE IF Len(ts) = 1 THEN ts[1]
    ELSE ts[1] \o <<" ">> \o JoinTexts(Tail(ts))

IsNonEmptyText(t) == t # <<>>

NonEmptyTexts(ts) == SelectSeq(ts, IsNonEmptyText)

(* C4 as stated: the texts of the output, joined with single spaces, are the *)
(* texts of the input joined with single spaces, empty texts included.       *)
C4_JoinedTextsEqual ==
    pc = "merged" => JoinTexts(TextsOf(merged)) = JoinTexts(TextsOf(merge_in))

(* C4, amended: the non-empty texts of the output, joined with single        *)
(* spaces, are the non-empty texts of the input joined with single spaces;   *)
(* when no input text is empty, the same holds of all the texts.             *)
C4_NonEmptyTextsKept ==
    pc = "merged" =>
        /\ JoinTexts(NonEmptyTexts(TextsOf(merged)))
              = JoinTexts(NonEmptyTexts(TextsOf(merge_in)))
        /\ (\A a \in DOMAIN merge_in : merge_in[a].text # <<>>) =>
              JoinTexts(TextsOf(merged)) = JoinTexts(TextsOf(merge_in))

(* an empty text was merged between two words *)
C4_Witness ==
    /\ pc = "merged"
    /\ Len(merge_in) = 3
    /\ Len(merged) = 1
    /\ merge_in[1].text # <<>>
    /\ merge_in[2].text = <<>>
    /\ merge_in[3].text # <<>>
    /\ JoinTexts(TextsOf(merged)) # JoinTexts(TextsOf(merge_in))

(* the r-th smallest element of a set of numbers *)
NthOf(S, r) == CHOOSE x \in S : Cardinality({y \in S : y <= x}) = r

(* C9: the merged list is never longer than the input read, and the input    *)
(* splits into consecutive runs, one per merged segment and in its order,    *)
(* every segment of a run having the merged segment's speaker, the merged    *)
(* segment starting where the first of the run starts and ending where the   *)
(* last of the run ends.                                                     *)
C9_RunsOfInput ==
    /\ Len(merged) <= Len(merge_in)
    /\ pc \in {"merge_loop", "merged"} =>
          \E firsts \in SUBSET (1 .. Len(merge_in)) :
              /\ Cardinality(firsts) = Len(merged)
              /\ merge_in # <<>> => 1 \in firsts
              /\ \A r \in DOMAIN merged :
                    LET first == NthOf(firsts, r)
                        last  == IF r = Len(merged) THEN Len(merge_in)
                                 ELSE NthOf(firsts, r + 1) - 1
                    IN  /\ merged[r].start = merge_in[first].start
                        /\ merged[r].end = merge_in[last].end
                        /\ \A a \in first .. last :
                              merge_in[a].speaker = merged[r].speaker

(* a run of two whose first segment ended after the second, then a run of one *)
C9_Witness ==
    /\ pc = "merged"
    /\ Len(merge_in) = 3
    /\ Len(merged) = 2
    /\ merge_in[1].end > merge_in[2].end
    /\ merged[1].start = merge_in[1].start
    /\ merged[1].end = merge_in[2].end
    /\ merged[2].start = merge_in[3].start

(* C10: merging the merged list again, with the same max_gap, changes        *)
(* nothing.                                                                  *)
C10_MergeIdempotent == pc = "remerged" => remerged = merged

(* the first pass merged something and left two neighbours of one speaker *)
C10_Witness ==
    /\ pc = "remerged"
    /\ Len(merge_in) = 3
    /\ Len(merged) = 2
    /\ merged[1].speaker = merged[2].speaker
    /\ remerged = merged

(* C18: of two neighbours of the merged list, in every state of the loop and *)
(* in the list returned, the speakers differ or the later starts more than   *)
(* max_gap after the earlier ends: no two neighbours could still be merged.  *)
C18_NoMergeLeft ==
    \A a \in 1 .. Len(merged) - 1 :
        \/ merged[a].speaker # merged[a + 1].speaker
        \/ merged[a + 1].start - merged[a].end > max_gap

(* returned: two neighbours of one speaker, kept apart by the gap alone, the *)
(* first of them merged from two segments the first of which ended later     *)
C18_Witness ==
    /\ pc = "merged"
    /\ Len(merge_in) = 3
    /\ Len(merged) = 2
    /\ merged[1].speaker = merged[2].speaker
    /\ merged[2].start - merged[1].end = max_gap + 1
    /\ merge_in[1].end > merge_in[2].end

----------------------------------------------------------------------------
(* Properties of apply_speaker_map, checked under SpecMap *)

(* C5 as stated: applying the same map to the result of applying it changes  *)
(* nothing, whatever the map.                                                *)
C5_ApplyTwiceSame == pc = "mapped2" => renamed2 = renamed

(* no display name of the map is itself a key with another display name *)
Unchained(mapping) ==
    \A k \in DOMAIN mapping :
        (mapping[k] # "" /\ mapping[k] \in DOMAIN mapping) =>
            mapping[mapping[k]] \in {"", mapping[k]}

(* C5, amended: applying the same map to the result of applying it changes   *)
(* nothing when no display name of the map is itself a key of the map with   *)
(* another, non-empty display name (or when there is no map file).           *)
C5_ApplyTwiceSameUnchained ==
    (pc = "mapped2" /\ (map_file.exists => Unchained(map_file.mapping))) =>
        renamed2 = renamed

(* a segment was renamed to a display name that is a key of the map too *)
C5_Witness ==
    /\ pc = "mapped2"
    /\ map_file.exists
    /\ Unchained(map_file.mapping)
    /\ Len(map_in) = 2
    /\ renamed[1].speaker # map_in[1].speaker
    /\ renamed[1].speaker \in DOMAIN map_file.mapping
    /\ renamed2 = renamed

(* C6: the result has the segments of the argument, in order, with start,    *)
(* end and text unchanged; the speaker is the map's entry for it when the    *)
(* file exists and has a non-empty entry for it, and is unchanged otherwise. *)
C6_RenamedExactlyWhen ==
    pc \in {"mapped", "mapped2"} =>
        /\ Len(renamed) = Len(map_in)
        /\ \A a \in DOMAIN map_in :
              /\ renamed[a].start = map_in[a].start
              /\ renamed[a].end = map_in[a].end
              /\ renamed[a].text = map_in[a].text
              /\ renamed[a].speaker =
                    IF /\ map_file.exists
                       /\ map_in[a].speaker \in DOMAIN map_file.mapping
                       /\ map_file.mapping[map_in[a].speaker] # ""
                    THEN map_file.mapping[map_in[a].speaker]
                    ELSE map_in[a].speaker

(* one segment renamed, one kept because its entry is the empty string *)
C6_Witness ==
    /\ pc = "mapped"
    /\ map_file.exists
    /\ Len(map_in) = 2
    /\ renamed[1].speaker # map_in[1].speaker
    /\ map_in[2].speaker \in DOMAIN map_file.mapping
    /\ map_file.mapping[map_in[2].speaker] = ""
    /\ renamed[2].speaker = map_in[2].speaker

----------------------------------------------------------------------------
(* Properties of runs sharing one speaker-map path, checked under SpecRuns *)

(* C11: a step of a run changes the map file only when the run found none,   *)
(* and then creates it with exactly one entry per distinct speaker of the    *)
(* run's merged segments, each the empty string; a run that finds a file     *)
(* leaves it as it is and renames by its entries as they stand.              *)
C11_MapWrittenOnlyWhenMissing ==
    [][/\ (pc \in {"run_idle", "run_merge", "run_apply"} /\ map_file' # map_file) =>
             /\ pc = "run_merge"
             /\ ~map_file.exists
             /\ map_file'.exists
             /\ DOMAIN map_file'.mapping = {map_in[a].speaker : a \in DOMAIN map_in}
             /\ \A k \in DOMAIN map_file'.mapping : map_file'.mapping[k] = ""
       /\ (pc = "run_apply" /\ map_file.exists) =>
             /\ map_file' = map_file
             /\ Len(renamed') = Len(map_in)
             /\ \A a \in DOMAIN map_in :
                   renamed'[a].speaker =
                       IF /\ map_in[a].speaker \in DOMAIN map_file.mapping
                          /\ map_file.mapping[map_in[a].speaker] # ""
                       THEN map_file.mapping[map_in[a].speaker]
                       ELSE map_in[a].speaker]_vars

(* a file created by a run (it has the key "UNKNOWN"), with a name the user  *)
(* entered, used by a later run whose other speaker is not in the file       *)
C11_Witness ==
    /\ pc = "run_done"
    /\ map_file.exists
    /\ DOMAIN map_file.mapping = {"A", "UNKNOWN"}
    /\ map_file.mapping["A"] = "N"
    /\ Len(map_in) = 2
    /\ map_in[1].speaker = "A" /\ renamed[1].speaker = "N"
    /\ map_in[2].speaker = "B" /\ renamed[2].speaker = "B"

----------------------------------------------------------------------------
(* Properties of the functions on malformed input, checked under SpecMalformed *)

(* C12: an interval with end < start is rejected: no assigned and no merged  *)
(* segment carries one, and nothing is assigned from a list of turns that    *)
(* holds one.                                                                *)
C12_MalformedRejected ==
    /\ \A a \in DOMAIN assigned : assigned[a].start <= assigned[a].end
    /\ \A a \in DOMAIN merged : merged[a].start <= merged[a].end
    /\ (\E b \in DOMAIN diar_turns : diar_turns[b].end < diar_turns[b].start) =>
          assigned = <<>>

----------------------------------------------------------------------------
(* Properties of the calls on missing files, checked under SpecLoad *)

(* C13 as stated: load_whisper_segments on a missing transcript and          *)
(* apply_speaker_map on a missing map file both end in an error and return   *)
(* no value.                                                                 *)
C13_MissingIsError ==
    /\ (pc # "load" /\ ~whisper_json.exists) => loaded = FileNotFound
    /\ (pc = "load_applied" /\ ~map_file.exists) => renamed = FileNotFound

(* C13, amended: load_whisper_segments on a missing transcript ends in an    *)
(* error and returns no value, and on an existing one returns its "segments" *)
(* array, or the empty list when the document has none; apply_speaker_map on *)
(* a missing map file raises nothing and returns the list it was given.      *)
C13_MissingTranscriptIsError ==
    /\ pc # "load" =>
          IF ~whisper_json.exists THEN loaded = FileNotFound
          ELSE IF "segments" \in DOMAIN whisper_json.data
               THEN loaded = whisper_json.data.segments
               ELSE loaded = <<>>
    /\ (pc = "load_applied" /\ ~map_file.exists) => renamed = map_in

(* both files missing: the load raised, the map was applied to two segments *)
C13_Witness ==
    /\ pc = "load_applied"
    /\ ~whisper_json.exists
    /\ loaded = FileNotFound
    /\ ~map_file.exists
    /\ Len(map_in) = 2
    /\ renamed = map_in

----------------------------------------------------------------------------
(* Properties of the conversation files, checked under SpecWrite *)

(* the line the format "[H:MM:SS] speaker: text" gives, H the whole hours *)
FormatLine(seg, timestamps) ==
    LET r == Round(seg.start)
    IN  (IF timestamps
         THEN <<"[">> \o DecStr(r \div 3600) \o <<":">> \o Pad2((r % 3600) \div 60)
                  \o <<":">> \o Pad2(r % 60) \o <<"]", " ">>
         ELSE <<>>)
            \o <<seg.speaker>> \o <<":", " ">> \o seg.text

RECURSIVE FormatLines(_, _)
FormatLines(segs, timestamps) ==
    IF segs = <<>> THEN <<>>
    ELSE FormatLine(Head(segs), timestamps) \o <<"\n">>
             \o FormatLines(Tail(segs), timestamps)

(* C14: the file holds one line per segment written, in order, each ended by *)
(* a newline: "[H:MM:SS] speaker: text" with H = r div 3600 unpadded,        *)
(* MM = (r mod 3600) div 60 and SS = r mod 60 in two digits, r the rounded   *)
(* start, whatever r >= 0; "speaker: text" without timestamps.  Stated of    *)
(* segments that have a text.                                                *)
C14_LinesInFormat ==
    (\A a \in DOMAIN write_in : write_in[a].text # <<>>) =>
        out_file = FormatLines(write_in, include_timestamps)

(* C19: for one segment, the line the WhisperX path writes is the line       *)
(* write_conversation writes for the same speaker, text and start.           *)
C19_SameLine ==
    (pc = "wx_written" /\ Len(write_in) = 1) => WxFile(wx_lines) = out_file

----------------------------------------------------------------------------
(* Properties of the calls on dicts with an identity, checked under SpecHeap *)

(* C15: from the call on, the list passed still holds the references it      *)
(* held, and every dict that existed when the call was made has the start,   *)
(* end, speaker and text it had then: extending the accumulator of           *)
(* merge_consecutive changes a copy, never a dict of the input.              *)
C15_InputsNotMutated ==
    pc \in {"heap_merge", "heap_returned"} =>
        /\ arg_refs = [a \in 1 .. Len(heap0) |-> a]
        /\ \A r \in DOMAIN heap0 : heap[r] = heap0[r]

(* merge_consecutive merged the second dict into its copy of the first: the  *)
(* result has another end and another text than the first input dict         *)
C15_Witness ==
    /\ pc = "heap_returned"
    /\ Len(arg_refs) = 2
    /\ Len(res_refs) = 1
    /\ res_refs[1] \notin DOMAIN heap0
    /\ heap[res_refs[1]].end # heap[arg_refs[1]].end
    /\ heap[res_refs[1]].text # heap[arg_refs[1]].text

----------------------------------------------------------------------------
(* Properties of the functions on empty lists, checked under SpecEmpty *)

(* C16: assign_speakers returns the empty list for no segments, whatever the *)
(* turns, and for no turns one segment per segment given, each labelled      *)
(* "UNKNOWN"; merge_consecutive and apply_speaker_map return the empty list  *)
(* for the empty list.  Every one of these calls returns.                    *)
C16_EmptyIsNoError ==
    /\ pc = "assigned_no_segs" => assigned = <<>>
    /\ pc = "assigned_no_turns" =>
          /\ Len(assigned) = Len(whisper_segs)
          /\ \A a \in DOMAIN assigned : assigned[a].speaker = "UNKNOWN"
    /\ pc = "merged_no_segs" => merged = <<>>
    /\ pc = "applied_no_segs" => renamed = <<>>

(* two segments, no turns: both came back labelled "UNKNOWN" *)
C16_Witness ==
    /\ pc = "assigned_no_turns"
    /\ Len(whisper_segs) = 2
    /\ Len(assigned) = 2
    /\ assigned[1].speaker = "UNKNOWN"
    /\ assigned[2].speaker = "UNKNOWN"

----------------------------------------------------------------------------
(* Properties of the Streamlit session, checked under SpecSession *)

(* C20: whenever conversation_path is set, the conversation was derived from *)
(* the transcript the session holds, and so were merged_segments when set;   *)
(* Generate Minutes summarised a text of the transcript held when it ran.    *)
C20_NoStaleConversation ==
    /\ conversation_path # NoPath =>
          (transcript # NoTranscript /\ conversation_path.from = transcript.id)
    /\ merged_segments # NoSegments =>
          (transcript # NoTranscript /\ merged_segments.from = transcript.id)
    /\ minutes_src # NoMinutes => minutes_src.from = minutes_src.held

----------------------------------------------------------------------------
(* Properties of _chunk_text, checked under SpecChunk *)

RECURSIVE ConcatAll(_)
ConcatAll(ps) == IF ps = <<>> THEN <<>> ELSE Head(ps) \o ConcatAll(Tail(ps))

LosslessSplit ==
    /\ ConcatAll(parts) = full_text
    /\ \A k \in 1 .. Len(parts) :
          /\ Len(parts[k]) <= max_chars
          /\ (full_text # <<>> => parts[k] # <<>>)

(* C22: _chunk_text terminates for every text and every max_chars >= 1,   *)
(* and what it returns is a lossless split: every chunk is non-empty      *)
(* (unless the text is empty) and at most max_chars long, and the chunks  *)
(* concatenated in order are exactly the text.                            *)
(* Termination is the loop's variant: every iteration moves i forward   *)
(* and never past the end of the text, so there are at most len(text)   *)
(* iterations.                                                          *)
C22_TerminatesLossless ==
    /\ [][pc = "chunk_loop" /\ pc' = "chunk_loop"
             => ci < ci' /\ ci' <= Len(full_text)]_vars
    /\ [](pc = "chunk_done" => LosslessSplit)

(* a text was cut after a sentence end beyond index BreakAfter, and the   *)
(* rest went into a further chunk                                         *)
C22_Witness ==
    /\ pc = "chunk_done"
    /\ Len(parts) >= 2
    /\ Len(parts[1]) < max_chars
    /\ Len(parts[1]) > BreakAfter + 1
    /\ LosslessSplit

----------------------------------------------------------------------------
(* Properties of make_minutes_from_text, checked under SpecMinutes *)

(* C21: whenever the transcript file exists and every LLM call returns,   *)
(* make_minutes_from_text ends without raising and returns the paths      *)
(* minutes_md, minutes_txt, actions_csv and dir; when the combined        *)
(* minutes hold at least one action, actions_csv names a CSV file that    *)
(* was written with one row per action, and when they hold none,          *)
(* actions_csv is the empty string.                                       *)
C21_MinutesReturned ==
    (pc = "minutes_end" /\ txt_exists) =>
        /\ minutes_ret.raised = ""
        /\ minutes_ret.minutes_md # Unbound /\ out_files.md
        /\ minutes_ret.minutes_txt # Unbound /\ out_files.txt
        /\ minutes_ret.dir # Unbound
        /\ (combined.actions # <<>> =>
               /\ minutes_ret.actions_csv \notin {"", Unbound}
               /\ out_files.csv
               /\ Len(out_files.rows) = Len(combined.actions))
        /\ (combined.actions = <<>> => minutes_ret.actions_csv = "")

----------------------------------------------------------------------------
(* All the specifications together *)

Init ==
    \/ InitAssign \/ InitMerge \/ InitMap \/ InitRuns \/ InitMalformed
    \/ InitLoad \/ InitWrite \/ InitHeap \/ InitEmpty \/ InitSession \/ InitChunk
    \/ InitMinutes

Next ==
    \/ NextAssign \/ NextMerge \/ NextMap \/ NextRuns \/ NextMalformed
    \/ NextLoad \/ NextWrite \/ NextHeap \/ NextEmpty \/ NextSession \/ NextChunk
    \/ NextMinutes

Spec == Init /\ [][Next]_vars

====
